---- MODULE Spec2Model ----
(***************************************************************************)
(* un-discordcdn (src/main.py): every Discord CDN URL found in the lines   *)
(* of the files of a project tree is downloaded to <project>/public and    *)
(* replaced in the file by a local path.                                   *)
(*                                                                         *)
(* Strings are sequences of one-character strings.  Offsets are Python's   *)
(* 0-based offsets; text[a:b] is SubSeq(text, a + 1, b).                   *)
(***************************************************************************)
EXTENDS Integers, Sequences, FiniteSets, TLC

VARIABLES
    disk,       \* content of each file of Tree (Text of its lines, or Binary)
    publicDir,  \* TRUE iff <project>/public exists
    assets,     \* names of the files saved in <project>/public
    pc,         \* "walk" | "lines" | "done" | "crashed"
    fi,         \* number of files of Tree the walk has visited
    cur,        \* path of the file being processed
    lines,      \* old_lines of update_urls_in_file
    newLines,   \* the lines the comprehension of line 152 has produced so far
    console,    \* the report lines printed, in order
    writes,     \* the files written back, in order
    run,        \* number of the current run of the program
    last        \* what the last call of update_url_in_line did

vars == <<disk, publicDir, assets, pc, fi, cur, lines, newLines, console,
          writes, run, last>>

----------------------------------------------------------------------------
(* Bounds of the model *)

MaxBody == 4    \* tokens of a line of the single-line inputs
MaxWords == 4   \* words of the lines of the files of a project, together
MaxRuns == 2    \* runs of the program on the same tree

----------------------------------------------------------------------------
(* Python's str and builtins *)

NO_MATCHES_FOUND == 9999999

None == <<>>
Some(x) == <<x>>

SetMin(S) == CHOOSE x \in S : \A y \in S : x <= y
SetMax(S) == CHOOSE x \in S : \A y \in S : x >= y

Letters ==
    {"a","b","c","d","e","f","g","h","i","j","k","l","m",
     "n","o","p","q","r","s","t","u","v","w","x","y","z"}
Digits == {"0","1","2","3","4","5","6","7","8","9"}

isalnum(c) == c \in Letters \cup Digits

\* text.find(sub, from): the lowest offset >= from where sub occurs, or -1
find(text, sub, from) ==
    LET cands == { i \in from .. (Len(text) - Len(sub)) :
                       SubSeq(text, i + 1, i + Len(sub)) = sub }
    IN  IF cands = {} THEN -1 ELSE SetMin(cands)

\* text.rfind(sub): the highest offset where sub occurs, or -1
rfind(text, sub) ==
    LET cands == { i \in 0 .. (Len(text) - Len(sub)) :
                       SubSeq(text, i + 1, i + Len(sub)) = sub }
    IN  IF cands = {} THEN -1 ELSE SetMax(cands)

endswith(text, suffix) ==
    /\ Len(text) >= Len(suffix)
    /\ SubSeq(text, Len(text) - Len(suffix) + 1, Len(text)) = suffix

\* text.replace(old, ''): the non-overlapping occurrences of old, left to
\* right, are removed
RECURSIVE replace(_, _)
replace(text, old) ==
    LET i == find(text, old, 0)
    IN  IF i = -1 THEN text
        ELSE SubSeq(text, 1, i)
                 \o replace(SubSeq(text, i + Len(old) + 1, Len(text)), old)

\* text[i] for a possibly negative i (a negative offset counts from the end)
index(text, i) == IF i < 0 THEN text[Len(text) + i + 1] ELSE text[i + 1]

\* text[a:b] for 0 <= a and 0 <= b
slice(text, a, b) == SubSeq(text, a + 1, IF b > Len(text) THEN Len(text) ELSE b)

min(a, b) == IF a <= b THEN a ELSE b

contains(text, sub) == find(text, sub, 0) # -1

----------------------------------------------------------------------------
(* The literals of the program *)

CDN == <<"h","t","t","p","s",":","/","/","c","d","n",".","d","i","s","c",
         "o","r","d","a","p","p",".","c","o","m">>
SCHEME == <<"h","t","t","p","s",":","/","/">>
MD == <<".","m","d">>
ignored_dirs ==
    { <<".","g","i","t">>,
      <<"n","o","d","e","_","m","o","d","u","l","e","s">>,
      <<"_","_","p","y","c","a","c","h","e","_","_">> }

----------------------------------------------------------------------------
(* The pure functions of the program *)

extract_url_from_text_noalnum(text) ==
    LET start_index == find(text, CDN, 0)
    IN  IF start_index = -1 THEN None
        ELSE
        LET first_char == index(text, start_index - 1)
            e0 == find(text, <<first_char>>, start_index)
            s0 == find(text, <<" ">>, start_index)
            p0 == find(text, <<")">>, start_index)
            e1 == IF e0 = -1 THEN NO_MATCHES_FOUND ELSE e0
            s1 == IF s0 = -1 THEN NO_MATCHES_FOUND ELSE s0
            p1 == IF p0 = -1 THEN NO_MATCHES_FOUND ELSE p0
            m  == min(min(e1, s1), p1)
            end_index == IF m = NO_MATCHES_FOUND \/ m = -1
                         THEN Len(text) - 1 ELSE m
        IN  Some([url |-> slice(text, start_index, end_index),
                  start |-> start_index, end |-> end_index])

extract_url_from_text_noparen(text) ==
    LET start_index == find(text, CDN, 0)
    IN  IF start_index = -1 THEN None
        ELSE
        LET first_char == index(text, start_index - 1)
        IN  IF isalnum(first_char) THEN None
            ELSE
            LET e0 == find(text, <<first_char>>, start_index)
                s0 == find(text, <<" ">>, start_index)
                e1 == IF e0 = -1 THEN NO_MATCHES_FOUND ELSE e0
                s1 == IF s0 = -1 THEN NO_MATCHES_FOUND ELSE s0
                m  == min(e1, s1)
                end_index == IF m = NO_MATCHES_FOUND \/ m = -1
                             THEN Len(text) - 1 ELSE m
            IN  Some([url |-> slice(text, start_index, end_index),
                      start |-> start_index, end |-> end_index])

\* extract_url_from_text: None, or Some of (url, start_index, end_index)
extract_url_from_text(text) ==
    LET start_index == find(text, CDN, 0)
    IN  IF start_index = -1 THEN None
        ELSE
        \* text[start_index - 1]; with start_index = 0 this is text[-1]
        LET first_char == index(text, start_index - 1)
        IN  IF isalnum(first_char) THEN None
            ELSE
            LET e0 == find(text, <<first_char>>, start_index)
                s0 == find(text, <<" ">>, start_index)
                p0 == find(text, <<")">>, start_index)
                e1 == IF e0 = -1 THEN NO_MATCHES_FOUND ELSE e0
                s1 == IF s0 = -1 THEN NO_MATCHES_FOUND ELSE s0
                p1 == IF p0 = -1 THEN NO_MATCHES_FOUND ELSE p0
                m  == min(min(e1, s1), p1)
                end_index == IF m = NO_MATCHES_FOUND \/ m = -1
                             THEN Len(text) - 1 ELSE m
            IN  Some([url |-> slice(text, start_index, end_index),
                      start |-> start_index, end |-> end_index])

get_file_name_from_url_nostrip(url) ==
    LET u2 == replace(url, SCHEME)
        idx == rfind(u2, <<"/">>) + 1
    IN  IF idx = 0 THEN None
        ELSE LET file_name == slice(u2, idx, Len(u2))
             IN  IF endswith(file_name, <<"?">>)
                 THEN Some(slice(file_name, 0, Len(file_name) - 1))
                 ELSE Some(file_name)

\* get_file_name_from_url: None, or Some of the file name
get_file_name_from_url(url) ==
    LET u1 == IF endswith(url, <<"/">>) THEN slice(url, 0, Len(url) - 1)
              ELSE url
        u2 == replace(u1, SCHEME)
        idx == rfind(u2, <<"/">>) + 1
    IN  IF idx = 0 THEN None
        ELSE LET file_name == slice(u2, idx, Len(u2))
             IN  IF endswith(file_name, <<"?">>)
                 THEN Some(slice(file_name, 0, Len(file_name) - 1))
                 ELSE Some(file_name)

update_file_url_inclusive(text, file_name, start_index, end_index) ==
    slice(text, 0, start_index) \o (<<"/">> \o file_name)
        \o slice(text, end_index + 1, Len(text))

update_file_url(text, file_name, start_index, end_index) ==
    LET new_url == <<"/">> \o file_name
    IN  slice(text, 0, start_index) \o new_url
            \o slice(text, end_index, Len(text))

\* the local reference of update_url_in_line, lines 130-131
local_name(file_name, include_public_dir) ==
    IF include_public_dir
    THEN <<"p","u","b","l","i","c","/">> \o file_name
    ELSE file_name

----------------------------------------------------------------------------
(* The project tree and the inputs *)

\* the files of the project, in the order os.walk yields them
Tree == << <<"a",".","m","d">>,
           <<".","g","i","t","/","c">>,
           <<"b",".","j","s">> >>

\* a file that does not decode as utf8, and a text file
Binary == [utf8 |-> FALSE, lines |-> <<>>]
Text(ls) == [utf8 |-> TRUE, lines |-> ls]

RECURSIVE Flatten(_)
Flatten(ss) == IF ss = <<>> THEN <<>> ELSE Head(ss) \o Flatten(Tail(ss))

RECURSIVE Join(_)
Join(ws) == IF Len(ws) = 1 THEN ws[1]
            ELSE ws[1] \o <<" ">> \o Join(Tail(ws))

SeqsUpTo(S, n) == UNION { [1..k -> S] : k \in 0..n }

\* single-line inputs: up to MaxBody tokens, each the CDN prefix or one
\* character, optionally ended by a newline (readlines yields no empty line
\* and a newline only at the end of a line)
Tokens == { CDN } \cup { <<c>> : c \in {"\"", " ", ")", "/", "?", "a"} }
BodyLines == { Flatten(ts) : ts \in SeqsUpTo(Tokens, MaxBody) }
SingleLines == { b \o <<"\n">> : b \in BodyLines } \cup (BodyLines \ { <<>> })

\* a line of a project file: words separated by a space, ended by a newline;
\* a word is a CDN URL or the local reference it is rewritten to
Words == { CDN \o <<"/","a">>, <<"/","a">> }
ProjectLines(k) == { Join(ws) \o <<"\n">> : ws \in [1..k -> Words] }

\* the sequences of lines that hold n words together
RECURSIVE ProjectTexts(_)
ProjectTexts(n) ==
    IF n = 0 THEN { <<>> }
    ELSE UNION { { <<l>> \o f : l \in ProjectLines(k),
                                f \in ProjectTexts(n - k) } : k \in 1..n }

\* the files of n words; the file that does not decode counts as empty
ProjectFiles(n) ==
    { Text(ls) : ls \in ProjectTexts(n) }
        \cup (IF n = 0 THEN { Binary } ELSE {})

\* the file under .git is never opened; it holds a CDN URL
GitFile == Text(<< <<" ">> \o CDN \o <<"/","a","\n">> >>)

NoCall == [called |-> FALSE, path |-> <<>>, line |-> <<>>, md |-> FALSE,
           span |-> None,
           name |-> None, out |-> <<>>, mkdir |-> FALSE, fetched |-> FALSE,
           failed |-> FALSE, returned |-> FALSE, run |-> 1]

InitRest ==
    /\ publicDir = FALSE
    /\ assets = {}
    /\ pc = "walk"
    /\ fi = 0
    /\ cur = <<>>
    /\ lines = <<>>
    /\ newLines = <<>>
    /\ console = <<>>
    /\ writes = <<>>
    /\ run = 1
    /\ last = NoCall

\* a project of two files of at most MaxWords words together, and a file
\* under .git
Init ==
    /\ \E n1 \in 0..MaxWords :
         \E n2 \in 0..(MaxWords - n1) :
           \E c1 \in ProjectFiles(n1), c2 \in ProjectFiles(n2) :
               disk = <<c1, GitFile, c2>>
    /\ InitRest

\* a project whose b.js holds one line
InitLine ==
    /\ \E l \in SingleLines : disk = <<Binary, GitFile, Text(<<l>>)>>
    /\ InitRest

----------------------------------------------------------------------------
(* update_urls_in_project *)

ignored(file_path) == \E dir \in ignored_dirs : contains(file_path, dir)

\* lines 176-181: the next file of the walk is under an ignored directory
WalkSkip ==
    /\ pc = "walk"
    /\ fi < Len(Tree)
    /\ ignored(Tree[fi + 1])
    /\ fi' = fi + 1
    /\ UNCHANGED <<disk, publicDir, assets, pc, cur, lines, newLines,
                   console, writes, run, last>>

\* lines 184, 145-151: update_urls_in_file opens and reads the next file; a
\* file that does not decode is left alone
WalkOpen ==
    /\ pc = "walk"
    /\ fi < Len(Tree)
    /\ ~ignored(Tree[fi + 1])
    /\ fi' = fi + 1
    /\ IF disk[fi + 1].utf8
       THEN /\ pc' = "lines"
            /\ cur' = Tree[fi + 1]
            /\ lines' = disk[fi + 1].lines
            /\ newLines' = <<>>
       ELSE UNCHANGED <<pc, cur, lines, newLines>>
    /\ UNCHANGED <<disk, publicDir, assets, console, writes, run, last>>

\* the walk is over: the program ends
WalkEnd ==
    /\ pc = "walk"
    /\ fi = Len(Tree)
    /\ pc' = "done"
    /\ UNCHANGED <<disk, publicDir, assets, fi, cur, lines, newLines,
                   console, writes, run, last>>

----------------------------------------------------------------------------
(* update_urls_in_file and update_url_in_line *)

\* the line the comprehension of line 152 handles next
NextLine == lines[Len(newLines) + 1]

\* line 152, one call of update_url_in_line in which requests.get succeeds
\* (or is not reached)
UpdateUrlInLine ==
    /\ pc = "lines"
    /\ Len(newLines) < Len(lines)
    /\ LET line == NextLine
           include_public_dir == endswith(cur, MD)
           extracted_url == extract_url_from_text(line)
           call == [NoCall EXCEPT !.called = TRUE, !.path = cur, !.line = line,
                                  !.md = include_public_dir,
                                  !.span = extracted_url, !.run = run]
       IN  IF extracted_url = None
           THEN /\ newLines' = Append(newLines, line)
                /\ last' = [call EXCEPT !.out = line, !.returned = TRUE]
                /\ UNCHANGED <<publicDir, assets, pc>>
           ELSE
           LET sp == extracted_url[1]
               file_name == get_file_name_from_url(sp.url)
           IN  IF file_name = None
               THEN /\ newLines' = Append(newLines, line)
                    /\ last' = [call EXCEPT !.out = line, !.returned = TRUE]
                    /\ UNCHANGED <<publicDir, assets, pc>>
               ELSE
               /\ publicDir' = TRUE
               /\ IF file_name[1] = <<>>
                  \* open('<project>/public/', 'wb') raises IsADirectoryError
                  THEN /\ pc' = "crashed"
                       /\ last' = [call EXCEPT !.name = file_name,
                                               !.mkdir = ~publicDir,
                                               !.fetched = TRUE]
                       /\ UNCHANGED <<assets, newLines>>
                  ELSE
                  LET updated_line ==
                          update_file_url(line,
                              local_name(file_name[1], include_public_dir),
                              sp.start, sp.end)
                  IN  /\ assets' = assets \cup { file_name[1] }
                      /\ newLines' = Append(newLines, updated_line)
                      /\ last' = [call EXCEPT !.name = file_name,
                                              !.mkdir = ~publicDir,
                                              !.fetched = TRUE,
                                              !.out = updated_line,
                                              !.returned = TRUE]
                      /\ UNCHANGED pc
    /\ UNCHANGED <<disk, fi, cur, lines, console, writes, run>>

\* line 152, one call of update_url_in_line in which requests.get raises:
\* nothing catches the exception and the program ends
FetchFails ==
    /\ pc = "lines"
    /\ Len(newLines) < Len(lines)
    /\ LET line == NextLine
           extracted_url == extract_url_from_text(line)
       IN  /\ extracted_url # None
           /\ LET file_name == get_file_name_from_url(extracted_url[1].url)
              IN  /\ file_name # None
                  /\ last' = [NoCall EXCEPT !.called = TRUE, !.path = cur,
                                            !.line = line,
                                            !.md = endswith(cur, MD),
                                            !.span = extracted_url,
                                            !.name = file_name,
                                            !.mkdir = ~publicDir,
                                            !.failed = TRUE, !.run = run]
    /\ publicDir' = TRUE
    /\ pc' = "crashed"
    /\ UNCHANGED <<disk, assets, fi, cur, lines, newLines, console, writes,
                   run>>

\* the number printed by line 159: len(set(lines) - set(old_lines))
diff_count(old_lines, new_lines) ==
    Cardinality({ new_lines[i] : i \in 1..Len(new_lines) }
                    \ { old_lines[i] : i \in 1..Len(old_lines) })

\* lines 155-162: every line is handled; the file is reported and written
\* back unless the new lines equal the old ones
FinishFile ==
    /\ pc = "lines"
    /\ Len(newLines) = Len(lines)
    /\ pc' = "walk"
    /\ IF lines = newLines
       THEN UNCHANGED <<disk, console, writes>>
       ELSE /\ console' = Append(console,
                    [run |-> run, path |-> cur,
                     diff |-> diff_count(lines, newLines)])
            /\ writes' = Append(writes, [run |-> run, path |-> cur])
            /\ disk' = [disk EXCEPT ![fi] = Text(newLines)]
    /\ UNCHANGED <<publicDir, assets, fi, cur, lines, newLines, run, last>>

\* the program is started again on the tree its previous run left
Rerun ==
    /\ pc = "done"
    /\ run < MaxRuns
    /\ run' = run + 1
    /\ pc' = "walk"
    /\ fi' = 0
    /\ cur' = <<>>
    /\ lines' = <<>>
    /\ newLines' = <<>>
    /\ UNCHANGED <<disk, publicDir, assets, console, writes, last>>

\* one run of the program
NextOnce ==
    \/ WalkSkip
    \/ WalkOpen
    \/ WalkEnd
    \/ UpdateUrlInLine
    \/ FetchFails
    \/ FinishFile

Next ==
    \/ NextOnce
    \/ Rerun

\* runs of the program on a project
Spec == Init /\ [][Next]_vars

\* one run of the program on a single line
SpecLine == InitLine /\ [][NextOnce]_vars

----------------------------------------------------------------------------
(* Vocabulary of the properties, stated on the text and not on find *)

\* the offsets of line at which the CDN prefix occurs
Occ(line) ==
    { i \in 0 .. (Len(line) - Len(CDN)) :
          \A k \in 1..Len(CDN) : line[i + k] = CDN[k] }

HasPrefix(line) == Occ(line) # {}

\* the offset of the first occurrence of the CDN prefix
FirstOcc(line) == CHOOSE i \in Occ(line) : \A j \in Occ(line) : i <= j

\* the character before offset i (i > 0)
CharBefore(line, i) == line[i]

\* the occurrences of the prefix that a non-alphanumeric character precedes
Qualifying(line) ==
    { i \in Occ(line) : i > 0 /\ ~isalnum(CharBefore(line, i)) }

\* the offsets from start on that hold delim, a space or a ')'
Stops(line, start, delim) ==
    { i \in start .. (Len(line) - 1) : line[i + 1] \in { delim, " ", ")" } }

\* a URL with no path segment: after the scheme there is no '/', but
\* possibly one at the very end
NoPath(url) ==
    LET rest == IF Len(url) >= Len(SCHEME)
                    /\ SubSeq(url, 1, Len(SCHEME)) = SCHEME
                THEN SubSeq(url, Len(SCHEME) + 1, Len(url))
                ELSE url
    IN  \A i \in 1..Len(rest) : rest[i] = "/" => i = Len(rest)

\* the texts of the lines the run changed
ChangedTexts(old_lines, new_lines) ==
    { new_lines[i] : i \in { j \in 1..Len(new_lines) :
                                 new_lines[j] # old_lines[j] } }

----------------------------------------------------------------------------
(* Properties *)

\* C1: a second run of the program on the tree its first run left modifies
\* nothing: it rewrites no line, writes no file and reports nothing.
C1_SecondRunModifiesNothing ==
    /\ \A i \in 1..Len(writes) : writes[i].run = 1
    /\ \A i \in 1..Len(console) : console[i].run = 1
    /\ (last.called /\ last.run > 1 /\ last.returned) => last.out = last.line

\* C2: when the fetch of one line's URL fails, the line keeps its text and the
\* program goes on with the remaining lines and files.
C2_FetchFailureIsolated ==
    (last.called /\ last.failed) =>
        /\ pc # "crashed"
        /\ last.returned
        /\ last.out = last.line

\* C3: a line with a span and a file name is rewritten to
\* line[0:start] + "/" + filename + line[end:], with "/public/" for a file
\* whose name ends in .md; the lines without a span or a file name, the number
\* of lines and their order are unchanged.
C3_RewriteRuleAndFrame ==
    /\ (last.called /\ last.returned /\ last.span # None /\ last.name # None)
         => LET sp == last.span[1]
                ref == IF last.path = Tree[1]
                       THEN <<"/","p","u","b","l","i","c","/">>
                       ELSE <<"/">>
            IN  /\ last.out = SubSeq(last.line, 1, sp.start) \o ref
                                 \o last.name[1]
                                 \o SubSeq(last.line, sp.end + 1, Len(last.line))
                /\ SubSeq(last.out, 1, sp.start)
                       = SubSeq(last.line, 1, sp.start)
                /\ SubSeq(last.out, Len(last.out) - (Len(last.line) - sp.end) + 1,
                          Len(last.out))
                       = SubSeq(last.line, sp.end + 1, Len(last.line))
    /\ (last.called /\ last.returned /\ newLines # <<>>)
         => newLines[Len(newLines)] = last.out
    /\ Len(newLines) <= Len(lines)
    /\ \A i \in 1..Len(newLines) :
           newLines[i] # lines[i] =>
               /\ HasPrefix(lines[i])
               /\ extract_url_from_text(lines[i]) # None
               /\ get_file_name_from_url(extract_url_from_text(lines[i])[1].url)
                      # None
    /\ (pc = "walk" /\ lines # <<>>) =>
           /\ Len(newLines) = Len(lines)
           /\ \E f \in 1..fi : Tree[f] = cur /\ disk[f] = Text(newLines)

C3_Witness ==
    /\ pc = "walk"
    /\ cur = Tree[1]
    /\ last.called /\ last.returned /\ last.name # None
    /\ Len(lines) >= 2
    /\ \E i \in 1..Len(lines) : newLines[i] # lines[i]
    /\ \E i \in 1..Len(lines) : newLines[i] = lines[i]
    /\ disk[1] = Text(newLines)

\* C4: when the first occurrence of the prefix is at start > 0 after a
\* non-alphanumeric delim, the span is (line[start:end], start, end) with end
\* the first offset from start on that holds delim, a space or a ')', and
\* end = length(line) - 1 when there is none.
C4_SpanEnd ==
    (last.called /\ HasPrefix(last.line) /\ FirstOcc(last.line) > 0
         /\ ~isalnum(CharBefore(last.line, FirstOcc(last.line))))
    => LET line == last.line
           start == FirstOcc(line)
           stops == Stops(line, start, CharBefore(line, start))
           end == IF stops = {} THEN Len(line) - 1
                  ELSE CHOOSE i \in stops : \A j \in stops : i <= j
       IN  last.span = Some([url |-> SubSeq(line, start + 1, end),
                             start |-> start, end |-> end])

\* a URL in double quotes: the span ends at the closing quote
C4_Witness ==
    /\ last.called /\ last.span # None
    /\ last.span[1].start > 0
    /\ CharBefore(last.line, last.span[1].start) = "\""
    /\ last.line[last.span[1].end + 1] = "\""
    /\ last.span[1].url = CDN \o <<"/">>

\* C5: on a line that holds an occurrence of the prefix after a
\* non-alphanumeric character, the span returned is that of the first such
\* occurrence, also when an earlier occurrence follows an alphanumeric
\* character (lines whose first occurrence is at offset 0 are left to C8).
C5_FirstQualifyingOccurrence ==
    (last.called /\ HasPrefix(last.line) /\ FirstOcc(last.line) > 0
         /\ Qualifying(last.line) # {})
    => /\ last.span # None
       /\ \A q \in Qualifying(last.line) : last.span[1].start <= q
       /\ last.span[1].start \in Qualifying(last.line)

\* C6: a line whose extracted URL has no path segment yields no file name and
\* is returned unchanged, with no directory created and no fetch.
C6_NoPathUrl ==
    (last.called /\ last.span # None /\ NoPath(last.span[1].url))
    => /\ last.name = None
       /\ last.returned
       /\ last.out = last.line
       /\ ~last.mkdir
       /\ ~last.fetched
       /\ ~last.failed
       /\ pc # "crashed"

\* the bare host followed by one '/', in a tree without a public directory
C6_Witness ==
    /\ last.called /\ last.span # None
    /\ last.span[1].url = CDN \o <<"/">>
    /\ last.returned
    /\ ~publicDir

\* C7: when a file is written back, the count reported is the number of
\* distinct lines the run changed, hence at least 1.
C7_ChangeReport ==
    (pc \in {"walk", "done"} /\ lines # newLines)
    => /\ Len(console) > 0
       /\ console[Len(console)].diff
              = Cardinality(ChangedTexts(lines, newLines))
       /\ console[Len(console)].diff >= 1

\* C8: a line whose first occurrence of the prefix is at offset 0 always
\* yields a span with start = 0.
C8_StartOfLineAccepted ==
    (last.called /\ HasPrefix(last.line) /\ FirstOcc(last.line) = 0)
    => /\ last.span # None
       /\ last.span[1].start = 0

\* C9: every span returned satisfies 0 <= start < end <= length(line),
\* url = line[start:end], start is the first occurrence of the prefix and the
\* character before start, if any, is not alphanumeric.
C9_SpanInvariant ==
    (last.called /\ last.span # None)
    => LET sp == last.span[1]
           line == last.line
       IN  /\ 0 <= sp.start
           /\ sp.start < sp.end
           /\ sp.end <= Len(line)
           /\ sp.url = SubSeq(line, sp.start + 1, sp.end)
           /\ HasPrefix(line)
           /\ sp.start = FirstOcc(line)
           /\ sp.start > 0 => ~isalnum(CharBefore(line, sp.start))

\* a span at start > 0 that ends at the last character of the line
C9_Witness ==
    /\ last.called /\ last.span # None
    /\ last.span[1].start > 0
    /\ last.span[1].end = Len(last.line) - 1

\* C10: a file name that is returned is not empty and holds no '/'.
C10_FileNameInsideAssetDir ==
    (last.called /\ last.name # None)
    => /\ Len(last.name[1]) > 0
       /\ \A i \in 1..Len(last.name[1]) : last.name[1][i] # "/"

====
